---- MODULE Spec2Model ----
(***************************************************************************)
(* State-machine model of ToolManager                                      *)
(* (packages/core/src/tools/tool_manager.ts): the single active tool, the  *)
(* switch gate, the drag-block classifier of bindEvent, the hotkey         *)
(* bindings and the listener teardown.                                     *)
(*                                                                         *)
(* Tools, the keybinding manager, the canvas dragger, the cursor manager    *)
(* and the event emitter are collaborators: every call the manager makes   *)
(* on one of them is appended, in call order, to the log `calls` of the    *)
(* handler that made it.                                                   *)
(***************************************************************************)
EXTENDS Integers, Sequences, FiniteSets, TLC

(***************************************************************************)
(* Bounds of the model.                                                    *)
(***************************************************************************)
\* client coordinates of pointer events range over 0..MaxCoord on each axis
MaxCoord == 2
\* identities for tool instances; an identity is given to a new instance
\* once no reference to its last owner is left
MaxLive == 4

(***************************************************************************)
(* Program constants and input domains.                                    *)
(***************************************************************************)
\* editor.setting.get('dragBlockStep')
DragBlockStep == 1

\* the tool types the constructor registers, in registration order (two of
\* the eight)
RegisteredSeq == <<"select", "drawRect">>

\* toolCtorMap's keys once the constructor has run (hotkeySet is only
\* consulted to log a duplicate hotkey)
toolCtorMap == {RegisteredSeq[k] : k \in 1..Len(RegisteredSeq)}

\* a type no constructor was registered for
AllTypes == toolCtorMap \cup {"eraser"}

\* the list the constructor passes to setEnableHotKeyTools
InitialEnabled == {"select", "drawRect"}

\* the lists later setEnableHotKeyTools calls pass
EnableChoices == {InitialEnabled, {"drawRect", "eraser"}}

\* the tool types that implement the optional hooks (onCommandChange,
\* onSpaceToggle, onAltToggle, onViewportXOrYChange)
OptionalHooks == {"select"}

Coords == 0..MaxCoord
Points == Coords \X Coords
\* the canvas element covers the points below y = MaxCoord
OnCanvas(pos) == pos[2] < MaxCoord
\* where a pointerdown lands: the corner of the canvas from which a move
\* goes backwards on x and forwards on y
DownPoints == {<<MaxCoord, 0>>}
InstIds == 1..MaxLive
\* PointerEvent.button: 0 is the primary button
Buttons == {0, 2}

\* all seven listeners bindEvent installs
AllListeners ==
  {"pointerdown", "pointermove", "pointerup", "change", "spaceToggle",
   "altToggle", "xOrYChange"}

NullTool == [id |-> 0, type |-> "undefined"]
NoCall == "noCall"
NoRe == [onInactive |-> NoCall, onActive |-> NoCall]

Abs(n) == IF n < 0 THEN -n ELSE n

VARIABLES
  currentTool,        \* this.currentTool: [id, type], NullTool for null
  enableSwitchTool,   \* this.enableSwitchTool
  keyBindingToken,    \* this.keyBindingToken
  _isDragging,        \* this._isDragging
  enableToolTypes,    \* this.enableToolTypes
  isPressing,         \* bindEvent closure
  startPos,           \* bindEvent closure
  startWithLeftMouse, \* bindEvent closure
  unbound,            \* this._unbindEvent is noop
  timers,             \* pointerdown events whose setTimeout callback is pending
  listeners,          \* listeners currently installed
  kbRegistered,       \* tokens live in editor.keybindingManager
  isEditing,          \* editor.textEditor.isEditing()
  isSpacePressing,    \* editor.hostEventManager.isSpacePressing
  op,                 \* the operation the last step ran
  calls,              \* collaborator calls the last step made, in order
  err,                \* the error the last step threw, "none" if none
  activeSet,          \* history: instances whose last lifecycle call is onActive
  inactivated,        \* history: instances that have received onInactive
  lastActivated,      \* history: type of the last instance given onActive
  lastBroadcast,      \* history: argument of the last switchTool emitted
  startedSet,         \* history: instances given onStart since the last pointerup
  openStart,          \* history: instances given onStart and no onEnd/afterEnd since
  press               \* history: the current press, from the events alone:
                      \* on (the last pointerdown callback gave onStart and no
                      \* pointerup came since), its start, exceeded (a move
                      \* of it went past the threshold), latched (a move went
                      \* past the threshold since the last pointerup)

mgrVars == <<currentTool, enableSwitchTool, keyBindingToken, _isDragging,
             enableToolTypes, isPressing, startPos, startWithLeftMouse, unbound>>
envVars == <<timers, listeners, kbRegistered, isEditing, isSpacePressing>>
logVars == <<op, calls, err>>
histVars == <<activeSet, inactivated, lastActivated, lastBroadcast, startedSet,
              openStart, press>>
vars == <<mgrVars, envVars, logVars, histVars>>

(***************************************************************************)
(* The manager as a handler's synchronous code sees it: its fields, the    *)
(* closure variables of bindEvent, the collaborator state its calls        *)
(* change, the calls made so far and the error thrown, if any.             *)
(***************************************************************************)
Self ==
  [currentTool |-> currentTool,
   enableSwitchTool |-> enableSwitchTool, keyBindingToken |-> keyBindingToken,
   _isDragging |-> _isDragging, enableToolTypes |-> enableToolTypes,
   isPressing |-> isPressing, startPos |-> startPos,
   startWithLeftMouse |-> startWithLeftMouse, unbound |-> unbound,
   listeners |-> listeners, kbRegistered |-> kbRegistered,
   calls |-> <<>>, err |-> "none"]

getActiveToolName(m) == m.currentTool.type

\* one call on a collaborator; `at` is getActiveToolName() when it is made
Call(m, cb, inst, arg) ==
  [m EXCEPT !.calls = Append(@, [cb |-> cb, inst |-> inst, arg |-> arg,
                                 at |-> getActiveToolName(m)])]

Throw(m, e) == [m EXCEPT !.err = e]

BoolStr(b) == IF b THEN "true" ELSE "false"

setCursorWhenActive(m) ==
  IF m.currentTool # NullTool THEN Call(m, "setCursor", 0, m.currentTool.type) ELSE m

(***************************************************************************)
(* setActiveTool(toolName).  re.onInactive and re.onActive name the type   *)
(* the outgoing tool's onInactive, and the incoming tool's onActive, pass  *)
(* to a setActiveTool call of their own (NoCall: the callback does not     *)
(* call back into the manager).                                            *)
(***************************************************************************)
RECURSIVE setActiveTool(_, _, _)

\* a lifecycle callback of `tool`, and the setActiveTool call it makes
Lifecycle(m, cb, tool, req) ==
  LET d == Call(m, cb, tool.id, tool.type)
  IN  IF req = NoCall THEN d ELSE setActiveTool(d, req, NoRe)

\* setActiveTool without the gate check
SwitchRefusedGateIgnored(m, toolName) == getActiveToolName(m) = toolName

\* line 220: the gate is closed or the type is the active one
SwitchRefused(m, toolName) ==
  ~m.enableSwitchTool \/ getActiveToolName(m) = toolName

\* setActiveTool without the enabled-set check
NotEnabledNever(m, toolName) == FALSE

\* line 224
NotEnabled(m, toolName) == toolName \notin m.enableToolTypes

\* the identity of the instance `new` constructs: one no reference is left
\* to (not the current tool's, nor one a frame of this handler holds)
FreshId(m) ==
  LET inUse == {m.currentTool.id} \cup {m.calls[k].inst : k \in DOMAIN m.calls}
      free == InstIds \ inUse
  IN  CHOOSE i \in free : \A j \in free : i <= j

\* Activate without the deactivation of the previous tool
ActivateKeepsPrev(m, toolName, re) ==
  LET created == [id |-> FreshId(m), type |-> toolName]
      m1 == [Call(m, "new", created.id, toolName) EXCEPT !.currentTool = created]
      m4 == Lifecycle(setCursorWhenActive(m1), "onActive", created, re.onActive)
  IN  Call(m4, "switchTool", 0, created.type)

\* Activate with the broadcast made before the new tool's onActive
ActivateBroadcastEarly(m, toolName, re) ==
  LET prevTool == m.currentTool
      created == [id |-> FreshId(m), type |-> toolName]
      m1 == [Call(m, "new", created.id, toolName) EXCEPT !.currentTool = created]
      m2 == IF prevTool # NullTool
            THEN Lifecycle(m1, "onInactive", prevTool, re.onInactive)
            ELSE m1
      m3 == Call(setCursorWhenActive(m2), "switchTool", 0, created.type)
  IN  Lifecycle(m3, "onActive", created, re.onActive)

\* lines 229-239, once a constructor was found
Activate(m, toolName, re) ==
  LET prevTool == m.currentTool
      created == [id |-> FreshId(m), type |-> toolName]
      m1 == [Call(m, "new", created.id, toolName) EXCEPT !.currentTool = created]
      m2 == IF prevTool # NullTool
            THEN Lifecycle(m1, "onInactive", prevTool, re.onInactive)
            ELSE m1
      m3 == setCursorWhenActive(m2)
      m4 == Lifecycle(m3, "onActive", created, re.onActive)
      m5 == Call(m4, "switchTool", 0, created.type)
  IN  IF m2.err # "none" THEN m2
      ELSE IF m4.err # "none" THEN m4
      ELSE m5

\* setActiveTool that drops the current tool before it finds no constructor
setActiveToolClearsFirst(m, toolName, re) ==
  IF SwitchRefused(m, toolName) THEN m
  ELSE IF NotEnabled(m, toolName) THEN Call(m, "warn", 0, toolName)
  ELSE IF toolName \notin toolCtorMap
  THEN Throw([m EXCEPT !.currentTool = NullTool], "notRegistered")
  ELSE Activate(m, toolName, re)

setActiveTool(m, toolName, re) ==
  IF SwitchRefused(m, toolName) THEN m
  ELSE IF NotEnabled(m, toolName) THEN Call(m, "warn", 0, toolName)
  ELSE IF toolName \notin toolCtorMap THEN Throw(m, "notRegistered")
  ELSE Activate(m, toolName, re)

\* setEnableHotKeyTools that deactivates a current tool whose type the new
\* list leaves out
setEnableHotKeyToolsDropsActive(m, toolTypes) ==
  LET m1 == Call([m EXCEPT !.enableToolTypes = toolTypes], "changeEnableTools", 0, "-")
  IN  IF m.currentTool # NullTool /\ m.currentTool.type \notin toolTypes
      THEN Call(m1, "onInactive", m.currentTool.id, m.currentTool.type)
      ELSE m1

\* setEnableHotKeyTools(toolTypes)
setEnableHotKeyTools(m, toolTypes) ==
  Call([m EXCEPT !.enableToolTypes = toolTypes], "changeEnableTools", 0, "-")

(***************************************************************************)
(* registerToolCtor's key binding for the k-th registered type, as the     *)
(* keybinding manager runs it on the key: `when`, then `action`.           *)
(***************************************************************************)
\* a binding whose `when` was fixed at registration, when every type was
\* still to be enabled
HotkeyWhenAtRegistration(m, type) == TRUE

HotkeyWhen(m, type) == type \in m.enableToolTypes

triggerHotkey(m, k) ==
  IF k \in m.kbRegistered /\ HotkeyWhen(m, RegisteredSeq[k])
  THEN setActiveTool(m, RegisteredSeq[k], NoRe)
  ELSE m

(***************************************************************************)
(* bindEvent's handlers.  e is the PointerEvent: [button, pos].            *)
(***************************************************************************)
\* handleDown that looks at the button alone
DownIgnoredButtonOnly(e, editing, spacePressing) == e.button # 0

\* lines 121-125: the pointerdown is not for the tool
DownIgnored(e, editing, spacePressing) ==
  e.button # 0 \/ editing \/ spacePressing

\* the setTimeout callback of handleDown
handleDown(m, e, editing, spacePressing) ==
  LET m1 == [m EXCEPT !.isPressing = FALSE, !._isDragging = FALSE,
                      !.startWithLeftMouse = FALSE]
      m2 == [m1 EXCEPT !.isPressing = TRUE, !.startWithLeftMouse = TRUE]
  IN  IF DownIgnored(e, editing, spacePressing) THEN m1
      ELSE IF m2.currentTool = NullTool THEN Throw(m2, "noActiveTool")
      ELSE Call([m2 EXCEPT !.startPos = e.pos], "onStart", m2.currentTool.id, "-")

\* the threshold test with >= for >
DragExceedsInclusive(pos, start) ==
  \/ Abs(pos[1] - start[1]) >= DragBlockStep
  \/ Abs(pos[2] - start[2]) >= DragBlockStep

\* lines 147-152: the move is past the threshold on some axis
DragExceeds(pos, start) ==
  \/ Abs(pos[1] - start[1]) > DragBlockStep
  \/ Abs(pos[2] - start[2]) > DragBlockStep

\* lines 156-160
DragDispatch(m) ==
  IF m._isDragging
  THEN Call(Call([m EXCEPT !.enableSwitchTool = FALSE],
                 "disableDragBySpace", 0, "-"),
            "onDrag", m.currentTool.id, "-")
  ELSE m

\* (line 139 stores the cursor position in currViewportPoint, which only
\* getCurrPoint reads: no handler's decision depends on it)
handleMove(m, e) ==
  IF m.currentTool = NullTool THEN Throw(m, "noActiveTool")
  ELSE IF m.isPressing
  THEN IF ~m.startWithLeftMouse THEN m
       ELSE DragDispatch(
              IF ~m._isDragging /\ DragExceeds(e.pos, m.startPos)
              THEN [m EXCEPT !._isDragging = TRUE] ELSE m)
  ELSE Call(m, "onMoveExcludeDrag", m.currentTool.id, BoolStr(~OnCanvas(e.pos)))

\* EndPress with _isDragging reset before onEnd reads it
EndPressResetsFirst(m) ==
  LET m1 == Call(m, "enableDragBySpace", 0, "-")
      m2 == [m1 EXCEPT !.isPressing = FALSE, !._isDragging = FALSE]
      m3 == Call(m2, "onEnd", m2.currentTool.id, BoolStr(m2._isDragging))
  IN  Call(m3, "afterEnd", m3.currentTool.id, "-")

\* lines 176-181
EndPress(m) ==
  LET m1 == Call(m, "enableDragBySpace", 0, "-")
      m2 == [m1 EXCEPT !.isPressing = FALSE]
      m3 == Call(m2, "onEnd", m2.currentTool.id, BoolStr(m2._isDragging))
  IN  Call(m3, "afterEnd", m3.currentTool.id, "-")

handleUp(m) ==
  LET m1 == [m EXCEPT !.enableSwitchTool = TRUE]
  IN  IF ~m1.startWithLeftMouse THEN m1
      ELSE IF m1.currentTool = NullTool THEN Throw(m1, "noActiveTool")
      ELSE [(IF m1.isPressing THEN EndPress(m1) ELSE m1) EXCEPT !._isDragging = FALSE]

\* handleCommandChange, handleSpaceToggle, handleAltToggle,
\* handleViewportXOrYChange: this.currentTool?.hook?.(...)
handleOptional(m, hook, arg) ==
  IF m.currentTool # NullTool /\ m.currentTool.type \in OptionalHooks THEN Call(m, hook, m.currentTool.id, arg) ELSE m

\* the closure bindEvent returns
removeListeners(m) ==
  Call([m EXCEPT !.listeners =
          @ \ {"pointerdown", "pointermove", "pointerup", "change", "spaceToggle"}],
       "removeListeners", 0, "-")

RECURSIVE unregisterAll(_, _)
unregisterAll(m, tokens) ==
  IF tokens = <<>> THEN m
  ELSE unregisterAll(
         Call([m EXCEPT !.kbRegistered = @ \ {Head(tokens)}],
              "unregister", Head(tokens), "-"),
         Tail(tokens))

\* unbindHotkey that leaves the token list as it was
unbindHotkeyKeepsTokens(m) == unregisterAll(m, m.keyBindingToken)

unbindHotkey(m) ==
  [unregisterAll(m, m.keyBindingToken) EXCEPT !.keyBindingToken = <<>>]

unbindEvent(m) ==
  unbindHotkey([(IF m.unbound THEN m ELSE removeListeners(m)) EXCEPT !.unbound = TRUE])

\* destroy that drops the reference to the tool it deactivated
destroyDropsTool(m) ==
  IF m.currentTool # NullTool
  THEN [Call(m, "onInactive", m.currentTool.id, m.currentTool.type)
          EXCEPT !.currentTool = NullTool]
  ELSE m

destroy(m) ==
  IF m.currentTool # NullTool
  THEN Call(m, "onInactive", m.currentTool.id, m.currentTool.type)
  ELSE m

(***************************************************************************)
(* History variables: what the calls of a handler mean for the instances.  *)
(***************************************************************************)
Hist ==
  [activeSet |-> activeSet, inactivated |-> inactivated,
   lastActivated |-> lastActivated, lastBroadcast |-> lastBroadcast,
   startedSet |-> startedSet, openStart |-> openStart]

NoHist ==
  [activeSet |-> {}, inactivated |-> {}, lastActivated |-> "undefined",
   lastBroadcast |-> "undefined", startedSet |-> {}, openStart |-> {}]

RECURSIVE Replay(_, _)
Replay(h, log) ==
  IF log = <<>> THEN h
  ELSE
    LET c == Head(log)
        h1 == CASE c.cb = "new" ->
                     [h EXCEPT !.activeSet = @ \ {c.inst},
                               !.inactivated = @ \ {c.inst},
                               !.startedSet = @ \ {c.inst},
                               !.openStart = @ \ {c.inst}]
                [] c.cb = "onActive" ->
                     [h EXCEPT !.activeSet = @ \cup {c.inst}, !.lastActivated = c.arg]
                [] c.cb = "onInactive" ->
                     [h EXCEPT !.activeSet = @ \ {c.inst},
                               !.inactivated = @ \cup {c.inst}]
                [] c.cb = "switchTool" -> [h EXCEPT !.lastBroadcast = c.arg]
                [] c.cb = "onStart" ->
                     [h EXCEPT !.startedSet = @ \cup {c.inst},
                               !.openStart = @ \cup {c.inst}]
                [] c.cb = "afterEnd" -> [h EXCEPT !.openStart = @ \ {c.inst}]
                [] OTHER -> h
    IN  Replay(h1, Tail(log))

\* the press as the events alone tell it: on, a pointerdown callback began a
\* press that no pointerup ended; ignored, the last pointerdown callback ran
\* for a non-primary button, or while editing text or holding space
NoPress ==
  [on |-> FALSE, start |-> <<0, 0>>, exceeded |-> FALSE, latched |-> FALSE,
   ignored |-> FALSE]

\* the displacement from the press start is past the threshold
PastThreshold(pos, start) ==
  \E i \in {1, 2} :
    pos[i] - start[i] > DragBlockStep \/ start[i] - pos[i] > DragBlockStep

Delivered(log, cb) == \E k \in DOMAIN log : log[k].cb = cb

Op(name, arg) == [name |-> name, arg |-> arg]

\* the state after a handler that left the manager as m
Commit(o, m) ==
  LET h == Replay(Hist, m.calls)
  IN  /\ currentTool' = m.currentTool
      /\ enableSwitchTool' = m.enableSwitchTool
      /\ keyBindingToken' = m.keyBindingToken
      /\ _isDragging' = m._isDragging
      /\ enableToolTypes' = m.enableToolTypes
      /\ isPressing' = m.isPressing
      /\ startPos' = m.startPos
      /\ startWithLeftMouse' = m.startWithLeftMouse
      /\ unbound' = m.unbound
      /\ listeners' = m.listeners
      /\ kbRegistered' = m.kbRegistered
      /\ op' = o
      /\ calls' = m.calls
      /\ err' = m.err
      /\ activeSet' = h.activeSet
      /\ inactivated' = h.inactivated
      /\ lastActivated' = h.lastActivated
      /\ lastBroadcast' = h.lastBroadcast
      /\ startedSet' = IF o.name = "pointerup" THEN {} ELSE h.startedSet
      /\ openStart' = h.openStart

(***************************************************************************)
(* Init: the state the constructor leaves.                                 *)
(***************************************************************************)
Constructed ==
  LET tokens == [k \in 1..Len(RegisteredSeq) |-> k]
      m0 == [currentTool |-> NullTool, enableSwitchTool |-> TRUE,
             keyBindingToken |-> tokens, _isDragging |-> FALSE,
             enableToolTypes |-> {}, isPressing |-> FALSE, startPos |-> <<0, 0>>,
             startWithLeftMouse |-> FALSE, unbound |-> FALSE,
             listeners |-> {}, kbRegistered |-> DOMAIN tokens,
             calls |-> <<>>, err |-> "none"]
      m1 == setEnableHotKeyTools(m0, InitialEnabled)
      m2 == setActiveTool(m1, "select", NoRe)
  IN  [m2 EXCEPT !.listeners = AllListeners]

Init ==
  LET m == Constructed
      h == Replay(NoHist, m.calls)
  IN  /\ currentTool = m.currentTool
      /\ enableSwitchTool = m.enableSwitchTool
      /\ keyBindingToken = m.keyBindingToken
      /\ _isDragging = m._isDragging
      /\ enableToolTypes = m.enableToolTypes
      /\ isPressing = m.isPressing
      /\ startPos = m.startPos
      /\ startWithLeftMouse = m.startWithLeftMouse
      /\ unbound = m.unbound
      /\ listeners = m.listeners
      /\ kbRegistered = m.kbRegistered
      /\ timers = <<>>
      /\ isEditing = FALSE
      /\ isSpacePressing = FALSE
      /\ op = Op("constructor", "-")
      /\ calls = m.calls
      /\ err = m.err
      /\ activeSet = h.activeSet
      /\ inactivated = h.inactivated
      /\ lastActivated = h.lastActivated
      /\ lastBroadcast = h.lastBroadcast
      /\ startedSet = h.startedSet
      /\ openStart = h.openStart
      /\ press = NoPress

(***************************************************************************)
(* Actions: one per public operation, event handler or timer callback.     *)
(***************************************************************************)
\* a programmatic setActiveTool(toolName)
SetActiveToolCall(toolName) ==
  LET m == setActiveTool(Self, toolName, NoRe)
  IN  /\ Commit(Op("setActiveTool", toolName), m)
      /\ UNCHANGED <<timers, isEditing, isSpacePressing, press>>

\* the key of the k-th registered tool is pressed
Hotkey(k) ==
  LET m == triggerHotkey(Self, k)
  IN  /\ Commit(Op("hotkey", RegisteredSeq[k]), m)
      /\ UNCHANGED <<timers, isEditing, isSpacePressing, press>>

SetEnableHotKeyTools(toolTypes) ==
  /\ Commit(Op("setEnableHotKeyTools", "-"), setEnableHotKeyTools(Self, toolTypes))
  /\ UNCHANGED <<timers, isEditing, isSpacePressing, press>>

\* a pointerdown whose handler runs its body at once, not in a timer callback
PointerDownSynchronous(button, pos) ==
  /\ timers = <<>>
  /\ "pointerdown" \in listeners
  /\ Commit(Op("pointerdown", "-"),
            handleDown(Self, [button |-> button, pos |-> pos],
                       isEditing, isSpacePressing))
  /\ UNCHANGED <<timers, isEditing, isSpacePressing, press>>

\* a pointerdown on the canvas: handleDown schedules its callback.  The
\* callback of one pointerdown runs before the next pointerdown arrives.
\* (held is not the program's: it notes, for the properties, whether text
\* was edited or space held as the event arrived)
PointerDown(button, pos) ==
  /\ timers = <<>>
  /\ timers' = IF "pointerdown" \in listeners
               THEN Append(timers, [button |-> button, pos |-> pos,
                                    held |-> isEditing \/ isSpacePressing])
               ELSE timers
  /\ Commit(Op("pointerdown", "-"), Self)
  /\ UNCHANGED <<isEditing, isSpacePressing, press>>

\* the oldest pending setTimeout callback runs
DownTimeout ==
  /\ timers # <<>>
  /\ LET e == Head(timers)
         m == handleDown(Self, e, isEditing, isSpacePressing)
     IN  /\ Commit(Op("downTimeout", IF e.held THEN "heldAtEvent" ELSE "-"), m)
         /\ press' = [on |-> Delivered(m.calls, "onStart"),
                      start |-> IF Delivered(m.calls, "onStart")
                                THEN e.pos ELSE NoPress.start,
                      exceeded |-> FALSE,
                      latched |-> press.latched,
                      ignored |-> e.button # 0 \/ isEditing \/ isSpacePressing]
  /\ timers' = Tail(timers)
  /\ UNCHANGED <<isEditing, isSpacePressing>>

\* a pointermove on the window
PointerMove(pos) ==
  /\ "pointermove" \in listeners
  /\ Commit(Op("pointermove", "-"),
            handleMove(Self, [button |-> 0, pos |-> pos]))
  /\ press' = IF press.on /\ PastThreshold(pos, press.start)
              THEN [press EXCEPT !.exceeded = TRUE, !.latched = TRUE]
              ELSE press
  /\ UNCHANGED <<timers, isEditing, isSpacePressing>>

\* a pointerup on the window
PointerUp ==
  /\ "pointerup" \in listeners
  /\ Commit(Op("pointerup", "-"), handleUp(Self))
  /\ press' = [NoPress EXCEPT !.ignored = press.ignored]
  /\ UNCHANGED <<timers, isEditing, isSpacePressing>>

\* the listeners' handler runs only while the listener is installed
Notify(listener, hook, arg) ==
  Commit(Op("notify", "-"),
         IF listener \in listeners THEN handleOptional(Self, hook, arg) ELSE Self)

CommandChange ==
  /\ Notify("change", "onCommandChange", "-")
  /\ UNCHANGED <<timers, isEditing, isSpacePressing, press>>

\* the host flips isSpacePressing, then emits spaceToggle
SpaceToggle ==
  /\ isSpacePressing' = ~isSpacePressing
  /\ Notify("spaceToggle", "onSpaceToggle", BoolStr(~isSpacePressing))
  /\ UNCHANGED <<timers, isEditing, press>>

AltToggle ==
  /\ Notify("altToggle", "onAltToggle", "-")
  /\ UNCHANGED <<timers, isEditing, isSpacePressing, press>>

ViewportXOrYChange ==
  /\ Notify("xOrYChange", "onViewportXOrYChange", "-")
  /\ UNCHANGED <<timers, isEditing, isSpacePressing, press>>

\* the text editor enters or leaves editing
TextEditToggle ==
  /\ isEditing' = ~isEditing
  /\ Commit(Op("textEditToggle", "-"), Self)
  /\ UNCHANGED <<timers, isSpacePressing, press>>

Destroy ==
  /\ Commit(Op("destroy", "-"), destroy(Self))
  /\ UNCHANGED <<timers, isEditing, isSpacePressing, press>>

UnbindEvent ==
  /\ Commit(Op("unbindEvent", "-"), unbindEvent(Self))
  /\ UNCHANGED <<timers, isEditing, isSpacePressing, press>>

Next ==
  \/ \E t \in AllTypes : SetActiveToolCall(t)
  \/ \E k \in DOMAIN RegisteredSeq : Hotkey(k)
  \/ \E s \in EnableChoices : SetEnableHotKeyTools(s)
  \/ \E b \in Buttons, p \in DownPoints : PointerDown(b, p)
  \/ DownTimeout
  \/ \E p \in Points : PointerMove(p)
  \/ PointerUp
  \/ CommandChange
  \/ SpaceToggle
  \/ AltToggle
  \/ ViewportXOrYChange
  \/ TextEditToggle
  \/ Destroy
  \/ UnbindEvent

Spec == Init /\ [][Next]_vars

(***************************************************************************)
(* The same manager with tools whose onInactive or onActive calls          *)
(* setActiveTool while a switch is in progress.                            *)
(***************************************************************************)
ReentrantSetActiveTool(toolName, fromInactive, fromActive) ==
  LET m == setActiveTool(Self, toolName,
                         [onInactive |-> fromInactive, onActive |-> fromActive])
  IN  /\ fromInactive # NoCall \/ fromActive # NoCall
      /\ Commit(Op("setActiveToolReentrant", toolName), m)
      /\ UNCHANGED <<timers, isEditing, isSpacePressing, press>>

\* the switching operations alone: no pointer event is handled while a
\* setActiveTool call is on the stack
NextReentrant ==
  \/ \E t \in AllTypes : SetActiveToolCall(t)
  \/ \E s \in EnableChoices : SetEnableHotKeyTools(s)
  \/ \E t \in AllTypes, a \in AllTypes \cup {NoCall}, b \in AllTypes \cup {NoCall} :
       ReentrantSetActiveTool(t, a, b)

SpecReentrant == Init /\ [][NextReentrant]_vars

(***************************************************************************)
(* Properties.                                                             *)
(***************************************************************************)
Lifecycles == {"new", "onInactive", "onActive", "setCursor", "switchTool"}
IsSwitchOp(o) == o.name \in {"setActiveTool", "hotkey"}

\* C1: at most one tool instance is active, and getActiveToolName() is the
\* type of the last instance a setActiveTool call activated.
C1_SingleActive ==
  /\ Cardinality(activeSet) <= 1
  /\ activeSet \subseteq {currentTool.id}
  /\ getActiveToolName(Self) = lastActivated

C1_Witness ==
  /\ IsSwitchOp(op)
  /\ Delivered(calls, "onActive")
  /\ Delivered(calls, "onInactive")
  /\ activeSet = {currentTool.id}
  /\ currentTool.type = "select"

\* C2: from the move that takes the press past the threshold until the
\* pointerup, a setActiveTool call (programmatic or from a hotkey) changes
\* nothing: same current tool, no callback, no broadcast.
C2_GateExclusive ==
  [][(press.latched /\ IsSwitchOp(op'))
       => (currentTool' = currentTool /\ calls' = <<>> /\ err' = "none")]_vars

C2_Witness ==
  /\ op = Op("setActiveTool", "drawRect")
  /\ press.latched
  /\ currentTool.type = "select"
  /\ "drawRect" \in enableToolTypes
  /\ calls = <<>>

\* C3: an instance that received onStart receives onEnd and afterEnd before
\* it receives onInactive: no deactivated instance has an onStart left open.
C3_LifecyclePairing == inactivated \cap openStart = {}

\* C4: onDrag, onEnd and afterEnd go only to an instance that received
\* onStart since the last pointerup.
C4_StartFirst ==
  [][\A k \in DOMAIN calls' :
       calls'[k].cb \in {"onDrag", "onEnd", "afterEnd"}
         => calls'[k].inst \in startedSet]_vars

\* C5: setActiveTool(X) with X the active type, or X outside the enabled
\* set, keeps the current instance, calls no lifecycle callback, sets no
\* cursor, broadcasts nothing and throws nothing.
C5_NoOpSwitch ==
  [][(op'.name = "setActiveTool"
        /\ (op'.arg = getActiveToolName(Self) \/ op'.arg \notin enableToolTypes))
       => /\ currentTool' = currentTool
          /\ err' = "none"
          /\ \A k \in DOMAIN calls' : calls'[k].cb \notin Lifecycles]_vars

C5_Witness ==
  /\ op.name = "setActiveTool"
  /\ op.arg \notin enableToolTypes
  /\ op.arg \in toolCtorMap
  /\ op.arg # currentTool.type
  /\ enableSwitchTool
  /\ Delivered(calls, "warn")

\* C6: in a successful switch the previous tool's onInactive comes first,
\* then the new tool's onActive, then the switchTool broadcast, which is the
\* last call; at the broadcast getActiveToolName() is the broadcast type.
C6_SwitchOrder ==
  \A k \in DOMAIN calls :
    calls[k].cb = "switchTool"
      => /\ k = Len(calls)
         /\ calls[k].at = calls[k].arg
         /\ \E j \in 1..(k - 1) :
              /\ calls[j].cb = "onActive"
              /\ calls[j].inst = currentTool.id
              /\ calls[j].arg = calls[k].arg
              /\ \A i \in DOMAIN calls : calls[i].cb = "onInactive" => i < j
              /\ IsSwitchOp(op)
                   => \E i \in 1..(j - 1) :
                        calls[i].cb = "onInactive" /\ calls[i].inst # currentTool.id

C6_Witness ==
  /\ op.name = "hotkey"
  /\ Len(calls) = 5
  /\ calls[2].cb = "onInactive"
  /\ calls[4].cb = "onActive"
  /\ calls[5].cb = "switchTool"

\* C7: setActiveTool(T) throws exactly when the gate is open, T is not the
\* active type, T is enabled and T has no registered constructor; a call
\* that throws keeps the current instance and makes no call.
C7_ThrowsUnregistered ==
  [][op'.name = "setActiveTool"
       => /\ (err' = "notRegistered")
               <=> /\ enableSwitchTool
                   /\ op'.arg # getActiveToolName(Self)
                   /\ op'.arg \in enableToolTypes
                   /\ op'.arg \notin toolCtorMap
          /\ err' # "none"
               => /\ currentTool' = currentTool
                  /\ calls' = <<>>
                  /\ UNCHANGED <<mgrVars, histVars>>]_vars

C7_Witness ==
  /\ op = Op("setActiveTool", "eraser")
  /\ err = "notRegistered"
  /\ calls = <<>>

\* C8: when a setActiveTool call whose lifecycle callbacks called
\* setActiveTool returns, at most one instance is active, it is the current
\* tool, and its type is the one last broadcast.
C8_ReentrantSafe ==
  (op.name = "setActiveToolReentrant" /\ err = "none")
    => /\ Cardinality(activeSet) <= 1
       /\ activeSet \subseteq {currentTool.id}
       /\ Delivered(calls, "switchTool") => lastBroadcast = getActiveToolName(Self)

\* C9: a pointermove of a press calls onDrag on the current tool, once, if
\* this move or an earlier one of the press went past dragBlockStep on an
\* axis, and makes no call otherwise.
C9_DragThreshold ==
  [][(op'.name = "pointermove" /\ press.on)
       => IF press'.exceeded
          THEN /\ Cardinality({k \in DOMAIN calls' : calls'[k].cb = "onDrag"}) = 1
               /\ \A k \in DOMAIN calls' :
                    calls'[k].inst # 0
                      => calls'[k].cb = "onDrag" /\ calls'[k].inst = currentTool.id
          ELSE calls' = <<>>]_vars

C9_Witness ==
  /\ op.name = "pointermove"
  /\ press.on
  /\ press.exceeded
  /\ Delivered(calls, "onDrag")

\* C10: the pointerup of a press calls onEnd(e, d) and then afterEnd(e) on
\* the current tool, d being whether the press went past the threshold, and
\* leaves the machine idle: not dragging, not pressing, gate open, drag by
\* space enabled again.
C10_PointerUpEnds ==
  [][(op'.name = "pointerup" /\ press.on)
       => /\ calls' =
               << [cb |-> "enableDragBySpace", inst |-> 0, arg |-> "-",
                   at |-> currentTool.type],
                  [cb |-> "onEnd", inst |-> currentTool.id,
                   arg |-> BoolStr(press.exceeded), at |-> currentTool.type],
                  [cb |-> "afterEnd", inst |-> currentTool.id, arg |-> "-",
                   at |-> currentTool.type] >>
          /\ ~_isDragging'
          /\ ~isPressing'
          /\ enableSwitchTool']_vars

C10_Witness ==
  /\ op.name = "pointerup"
  /\ Len(calls) = 3
  /\ calls[2].cb = "onEnd"
  /\ calls[2].arg = "true"
  /\ calls[3].cb = "afterEnd"
  /\ ~_isDragging
  /\ enableSwitchTool

\* C11: a pointerdown whose callback finds a non-primary button, text being
\* edited or space held delivers no onStart; from then on, until another
\* pointerdown callback runs, every pointermove calls onMoveExcludeDrag on
\* the current tool and nothing else, and a pointerup makes no call.
C11_IgnoredDownIdle ==
  [][/\ (op'.name = "downTimeout" /\ press'.ignored) => calls' = <<>>
     /\ (press.ignored /\ op'.name = "pointermove")
          => /\ Len(calls') = 1
             /\ calls'[1].cb = "onMoveExcludeDrag"
             /\ calls'[1].inst = currentTool.id
     /\ (press.ignored /\ op'.name = "pointerup") => calls' = <<>>]_vars

\* a pointerdown ignored in the middle of a drag, then a move
C11_Witness ==
  /\ press.ignored
  /\ press.latched
  /\ op.name = "pointermove"
  /\ Delivered(calls, "onMoveExcludeDrag")

\* C12: the key of a registered binding for type T makes T the active tool
\* exactly when, as the key is pressed, T is in the enabled set last
\* installed, the gate is open and T is not the active type; then there is
\* one switchTool broadcast, of T; otherwise the current tool stays and no
\* call is made.
C12_HotkeyTrigger ==
  [][\A k \in DOMAIN RegisteredSeq :
       (op' = Op("hotkey", RegisteredSeq[k]) /\ k \in kbRegistered)
         => IF /\ RegisteredSeq[k] \in enableToolTypes
               /\ enableSwitchTool
               /\ getActiveToolName(Self) # RegisteredSeq[k]
            THEN /\ currentTool' # currentTool
                 /\ currentTool'.type = RegisteredSeq[k]
                 /\ activeSet' = {currentTool'.id}
                 /\ \E j \in DOMAIN calls' :
                      /\ calls'[j].cb = "switchTool"
                      /\ calls'[j].arg = RegisteredSeq[k]
                      /\ \A i \in DOMAIN calls' : calls'[i].cb = "switchTool" => i = j
            ELSE /\ currentTool' = currentTool
                 /\ calls' = <<>>
                 /\ err' = "none"]_vars

\* a switch by hotkey under an enabled set installed after registration
C12_Witness ==
  /\ op = Op("hotkey", "drawRect")
  /\ enableToolTypes = {"drawRect", "eraser"}
  /\ currentTool.type = "drawRect"
  /\ Delivered(calls, "switchTool")

\* C13: handling the pointerdown event itself makes no call and changes no
\* variable of the drag session; onStart is delivered only by the deferred
\* callback, and exactly when, as the callback runs, the button is primary,
\* no text is edited and space is not held.
C13_DecidedAtContinuation ==
  [][/\ op'.name = "pointerdown"
          => /\ calls' = <<>>
             /\ UNCHANGED <<isPressing, startPos, startWithLeftMouse, _isDragging,
                            enableSwitchTool, currentTool>>
     /\ Delivered(calls', "onStart") => op'.name = "downTimeout"
     /\ op'.name = "downTimeout"
          => (Delivered(calls', "onStart")
                <=> (Head(timers).button = 0 /\ ~isEditing /\ ~isSpacePressing))]_vars

\* a pointerdown that arrived while text was edited or space was held, and
\* whose callback, run after the toggle, delivered onStart
C13_Witness ==
  /\ op = Op("downTimeout", "heldAtEvent")
  /\ Delivered(calls, "onStart")

\* C14: between handlers, switching is disabled exactly when a drag is in
\* progress: enableSwitchTool is false iff isDragging() is true.
C14_GateIffDragging == enableSwitchTool <=> ~_isDragging

\* C15: once isDragging() is true it stays true until a pointerup is
\* handled: no other step takes it from true to false.
C15_DragLatched ==
  [][(_isDragging /\ ~_isDragging') => op'.name = "pointerup"]_vars

\* C16: once unbindEvent() has run, no pointerdown, pointermove, pointerup,
\* command-change, space-toggle, alt-toggle or viewport x/y-change event
\* calls anything on a tool.
C16_UnbindSilences ==
  [][(unbound /\ op'.name \in {"pointerdown", "pointermove", "pointerup", "notify"})
       => \A k \in DOMAIN calls' : calls'[k].inst = 0]_vars

\* C17: unbindEvent() unregisters each token of the token list exactly once
\* and leaves the list empty; a further unbindEvent() makes no call at all
\* (no unregister, no listener removal) and throws nothing; once it has run,
\* no key press switches the tool.
C17_UnbindIdempotent ==
  [][/\ op'.name = "unbindEvent"
          => /\ keyBindingToken' = <<>>
             /\ err' = "none"
             /\ \A i \in DOMAIN keyBindingToken :
                  Cardinality({k \in DOMAIN calls' :
                                 /\ calls'[k].cb = "unregister"
                                 /\ calls'[k].inst = keyBindingToken[i]}) = 1
             /\ Cardinality({k \in DOMAIN calls' : calls'[k].cb = "unregister"})
                  = Len(keyBindingToken)
             /\ unbound => (calls' = <<>> /\ listeners' = listeners)
     /\ (unbound /\ op'.name = "hotkey")
          => (currentTool' = currentTool /\ calls' = <<>>)]_vars

\* a second unbindEvent()
C17_Witness ==
  /\ op.name = "unbindEvent"
  /\ unbound
  /\ keyBindingToken = <<>>
  /\ kbRegistered = {}
  /\ calls = <<>>

\* the callbacks of the tool contract
ToolCallbacks ==
  {"onActive", "onInactive", "onStart", "onDrag", "onEnd", "afterEnd",
   "onMoveExcludeDrag", "onCommandChange", "onSpaceToggle", "onAltToggle",
   "onViewportXOrYChange"}

\* no call of the log goes to an instance that has had its onInactive;
\* inact holds the instances that had it before the log's first call
RECURSIVE NoneAfterInactive(_, _)
NoneAfterInactive(inact, log) ==
  IF log = <<>> THEN TRUE
  ELSE LET c == Head(log)
       IN  CASE c.cb = "new" -> NoneAfterInactive(inact \ {c.inst}, Tail(log))
             [] c.cb \in ToolCallbacks ->
                  /\ c.inst \notin inact
                  /\ NoneAfterInactive(
                       IF c.cb = "onInactive" THEN inact \cup {c.inst} ELSE inact,
                       Tail(log))
             [] OTHER -> NoneAfterInactive(inact, Tail(log))

\* C18: onInactive is the last callback an instance receives: no handler
\* calls anything, a second onInactive included, on an instance that has
\* received onInactive.
C18_InactiveIsFinal == [][NoneAfterInactive(inactivated, calls')]_vars

\* C19: from the end of the constructor on there is always a current tool,
\* whatever operation or event was handled, and no handler throws
\* 'there is no active tool'.
C19_NeverNull ==
  /\ currentTool # NullTool
  /\ currentTool.type \in toolCtorMap
  /\ err # "noActiveTool"

\* a pointermove handled after destroy() found the current tool
C19_Witness ==
  /\ op.name = "pointermove"
  /\ currentTool.id \in inactivated
  /\ Delivered(calls, "onMoveExcludeDrag")
  /\ err = "none"

\* C20: setEnableHotKeyTools makes one call, the changeEnableTools
\* broadcast, and changes nothing but the enabled set: the current
\* instance, the gate, the drag session, the bindings and the listeners
\* stay, also when the active type is not in the new set; a current tool
\* whose type is not enabled still gets the onStart of a pointerdown.
C20_EnableSetFrame ==
  [][/\ op'.name = "setEnableHotKeyTools"
          => /\ Len(calls') = 1
             /\ calls'[1].cb = "changeEnableTools"
             /\ err' = "none"
             /\ UNCHANGED <<currentTool, enableSwitchTool, _isDragging, isPressing,
                            startPos, startWithLeftMouse, keyBindingToken,
                            unbound, listeners, kbRegistered, timers,
                            activeSet, inactivated, openStart>>
     /\ (op'.name = "downTimeout" /\ ~press'.ignored
           /\ currentTool.type \notin enableToolTypes)
          => /\ Len(calls') = 1
             /\ calls'[1].cb = "onStart"
             /\ calls'[1].inst = currentTool.id]_vars

\* the enabled set was replaced by one without the active type, in the
\* middle of a drag
C20_Witness ==
  /\ op.name = "setEnableHotKeyTools"
  /\ currentTool.type \notin enableToolTypes
  /\ activeSet = {currentTool.id}
  /\ _isDragging
  /\ ~enableSwitchTool

====
